---------------------------- MODULE Spec2Model ----------------------------
(***************************************************************************)
(* Dependency virtualisation layer of docling-openai: the module registry  *)
(* (sys.modules), the stub installers of sitecustomize.py and conftest.py, *)
(* the fastapi.py and docling_core_stub.py shims, the collection hook and  *)
(* the late-binding import hook for pytest.                                *)
(*                                                                         *)
(* A module name is the tuple of its dotted components.  A module object   *)
(* is a pair <<creation site, generation>>: the site is the file:line of   *)
(* the types.ModuleType call that made it ("real:<name>" for a genuinely   *)
(* imported unit), the generation is the run of the script that made it.   *)
(* An attribute value that is not a module is a pair <<tag, 0>>.           *)
(*                                                                         *)
(* A script's top level is one step.  Inside a step the code is a chain of *)
(* blocks, each a function from a working record (the fields of St) to a   *)
(* working record; a block is skipped once an exception is pending.        *)
(***************************************************************************)
EXTENDS Integers, Sequences, FiniteSets, TLC

VARIABLES
    env,          \* what the interpreter's environment provides (fixed per run)
    sys_modules,  \* the registry: module name -> module object
    attrs,        \* attributes of objects: set of <<object, attribute, value>>
    meta_path,    \* number of _PytestImportHook instances on sys.meta_path
    sc_pa_mod,    \* sitecustomize's global _pytest_asyncio_mod
    plugins,      \* pluginmanager registrations: set of <<plugin name, object>>
    items,        \* the collected test items: sequence of [path, markers]
    built,        \* per guarded name: how many stub modules were constructed
    requests,     \* log of guarded installation requests
    hook,         \* the import hook: resolutions seen, loaders wrapped, upgrades, and the
                  \* log of what exec_module_override did
    import_failed, \* the names whose genuine import was attempted and failed
    last,         \* the last step taken and how it ended
    runs,         \* per script: how many times it has been executed
    loaded,       \* the scripts whose top level has completed without an exception
    steps,        \* number of steps taken
    \* -- one test item run through the async bridge
    phase,        \* the runner's position: define, setup, call, teardown, done ("idle": no item)
    inputs,       \* the test module: decorator, style of use, fixture function, test function
    bound,        \* what the test module's name `dummy` is bound to
    loops,        \* event loops created so far: sequence of the bridged calls that made them
    trace,        \* loop events and the outcomes observed by the callers, in order
    agen,         \* the async generator object of the fixture
    calls,        \* invocations of the test target: sequence of [by, kwargs]
    funcargs,     \* the item's resolved fixture values: set of <<name, value>>
    results       \* outcome of the setup, call and teardown stages

bvars == <<phase, inputs, bound, loops, trace, agen, calls, funcargs, results>>

vars == <<env, sys_modules, attrs, meta_path, sc_pa_mod, plugins, items, built,
          requests, hook, import_failed, last, runs, loaded, steps,
          phase, inputs, bound, loops, trace, agen, calls, funcargs, results>>

\* ------------------------------------------------------------------ bounds
\* total number of bootstrap steps explored
MaxSteps == 3

\* ------------------------------------------------------------------ names
PYTEST == <<"pytest">>
PYTEST_ASYNCIO == <<"pytest_asyncio">>
FASTAPI == <<"fastapi">>
WEBSOCKETS == <<"websockets">>

GuardedNames ==
    { <<"pytest_check">>, <<"asgi_lifespan">>, WEBSOCKETS, <<"scalar_fastapi">>,
      <<"filetype">>, <<"pypdfium2">>, <<"docling_parse">>, <<"rtree">> }

Scripts == {"sitecustomize", "conftest", "modifyitems", "fastapi", "docling_core_stub"}

Parent(n) == SubSeq(n, 1, Len(n) - 1)
Leaf(n) == n[Len(n)]
IsDotted(n) == Len(n) > 1

NoExc == "none"
Undefined == <<"undefined", 0>>
Val(tag) == <<tag, 0>>
Obj(site, g) == <<site, g>>

\* objects that come from a genuine import, not from types.ModuleType
RealSites ==
    { "real:pytest", "real:pytest_asyncio", "real:fastapi", "real:fastapi.responses",
      "real:dep", "real:docling", "real:docling.docling", "real:docling.docling.sub",
      "file:fastapi.py", "file:docling_core_stub.py", "builtin:sys" }

IsSynthetic(o) == o[1] \notin RealSites

\* ------------------------------------------------------------------ environment
\* pytest: "pathfinder" = importlib.machinery.PathFinder finds it on sys.path,
\*         "other" = only a later meta-path finder resolves it, "absent" = not installed
\* fastapi: "real" = the genuine package, "shim" = the repository's fastapi.py, "absent"
Envs ==
    [ paFile       : BOOLEAN,       \* pytest_asyncio.py exists next to sitecustomize.py
      paImportable : BOOLEAN,       \* `import pytest_asyncio` finds a module on disk
      pytest       : {"pathfinder", "other", "absent"},
      pmAvail      : BOOLEAN,       \* pytest exposes a pluginmanager attribute
      fastapi      : {"real", "shim", "absent"},
      starlette    : BOOLEAN,       \* starlette is importable
      realDep      : GuardedNames \cup {<<"none">>},  \* a guarded dependency really installed
      preloaded    : BOOLEAN,       \* ... and already imported at interpreter start
      docling      : BOOLEAN ]      \* docling.docling (and its subpackage) is importable

EnvOK(e) ==
    /\ e.paFile => e.paImportable
    /\ (e.fastapi = "real") => e.starlette
    /\ (e.realDep = <<"none">>) => ~e.preloaded
    /\ (e.pytest = "absent") => ~e.pmAvail

\* ------------------------------------------------------------------ working record
St ==
    [ mods |-> sys_modules, attrs |-> attrs, meta |-> meta_path, scpa |-> sc_pa_mod,
      plugins |-> plugins, items |-> items, built |-> built, reqs |-> requests,
      hook |-> hook, failed |-> import_failed, runs |-> runs, exc |-> NoExc,
      fastapiMod |-> Undefined,      \* conftest's global _fastapi_mod
      fastapiImported |-> FALSE,     \* conftest's `import fastapi` succeeded
      snapMods |-> {}, snapAttrs |-> {} ]  \* the fastapi entries right after that import

Ok(st) == st.exc = NoExc
Raise(st, e) == [st EXCEPT !.exc = e]

\* `import n` found no module named n
ImportFails(st, n) == [st EXCEPT !.exc = "ModuleNotFoundError", !.failed = @ \cup {n}]

Registered(st, n) == n \in DOMAIN st.mods

\* sys.modules[n] = o
Bind(st, n, o) == [st EXCEPT !.mods = (n :> o) @@ st.mods]

\* del sys.modules[n]
Unbind(st, n) == [st EXCEPT !.mods = [k \in (DOMAIN st.mods) \ {n} |-> st.mods[k]]]

\* setattr(o, a, v)
SetAttr(st, o, a, v) ==
    [st EXCEPT !.attrs = {t \in @ : ~(t[1] = o /\ t[2] = a)} \cup {<<o, a, v>>}]

HasAttrIn(A, o, a) == \E t \in A : t[1] = o /\ t[2] = a
GetAttrIn(A, o, a) == (CHOOSE t \in A : t[1] = o /\ t[2] = a)[3]
HasAttr(st, o, a) == HasAttrIn(st.attrs, o, a)

\* types.ModuleType(name) for a guarded name: count the construction
Construct(st, n) == [st EXCEPT !.built[n] = @ + 1]

\* the outcome of one guarded installation request that found the state st0 and left st1
LogRequest(st0, st1, by, n) ==
    [st1 EXCEPT !.reqs = @ \cup {[by |-> by, name |-> n, present |-> Registered(st0, n),
                                  changed |-> st1.mods # st0.mods, exc |-> st1.exc]}]

\* ------------------------------------------------------------------ pluginmanager, marks
HasPlugin(st, name) == \E p \in st.plugins : p[1] = name
\* pm.register(o, name): a name that is already registered is refused
Register(st, o, name) ==
    IF HasPlugin(st, name) THEN Raise(st, "ValueError")
    ELSE [st EXCEPT !.plugins = @ \cup {<<name, o>>}]

\* if not hasattr(pytest.mark, "asyncio"): pytest.mark.asyncio = pytest.mark
MarkAsyncio(st) ==
    LET py == st.mods[PYTEST] IN
    IF HasAttr(st, py, "mark.asyncio") THEN st
    ELSE SetAttr(st, py, "mark.asyncio", Val("pytest.mark"))

\* ------------------------------------------------------------------ the import hook
RealPytest == Obj("real:pytest", 0)

\* parameters of exec_module_override; it is stored on the loader instance as a plain
\* function, so a call loader.exec_module(module) binds its arguments to them one by one
ExecModuleOverrideParams == <<"loader_self", "module">>

\* a pytest installation whose body raises when it is executed
BrokenPytest == Obj("real:pytest", 1)

\* exec_module_override reaches the point e
Log(st, e) == [st EXCEPT !.hook.log = Append(@, e)]

\* orig_exec(module): the body of the pytest package runs
OrigExec(st, module) ==
    IF module = BrokenPytest THEN Raise(Log(st, "body_raised"), "ImportError")
    ELSE Log(st, "body_ok")

\* the resolution of `import pytest` through sys.meta_path, given the finder's answer
\* for the hook ("wrapped": the spec's loader carries the override; "none": not found by it)
RECURSIVE ImportPytest(_)

\* the upgrade reading pytest.pluginmanager without a default, as conftest.py:141 does
UpgradePytestAsyncioStub_NoDefault(st, original_mod) ==
    LET s0 == [st EXCEPT !.hook.upgrades = @ + 1]
        s1 == ImportPytest(s0)
    IN  IF ~Ok(s1) THEN s1
        ELSE LET s2 == SetAttr(s1, original_mod, "fixture", Val("fixture@sitecustomize:110"))
                 s3 == SetAttr(s2, original_mod, "pytest_pyfunc_call",
                               Val("pytest_pyfunc_call@sitecustomize:153"))
                 s4 == MarkAsyncio(s3)
             IN  IF ~env.pmAvail THEN Raise(s4, "AttributeError")
                 ELSE IF ~HasPlugin(s4, "pytest_asyncio")
                 THEN Register(s4, original_mod, "pytest_asyncio")
                 ELSE s4

\* _upgrade_pytest_asyncio_stub(original_mod)
UpgradePytestAsyncioStub(st, original_mod) ==
    LET s0 == [st EXCEPT !.hook.upgrades = @ + 1]
        s1 == ImportPytest(s0)
    IN  IF ~Ok(s1) THEN s1
        ELSE LET s2 == SetAttr(s1, original_mod, "fixture", Val("fixture@sitecustomize:110"))
                 s3 == SetAttr(s2, original_mod, "pytest_pyfunc_call",
                               Val("pytest_pyfunc_call@sitecustomize:153"))
                 s4 == MarkAsyncio(s3)
             IN  IF env.pmAvail /\ ~HasPlugin(s4, "pytest_asyncio")
                 THEN Register(s4, original_mod, "pytest_asyncio")
                 ELSE s4

\* an override that upgrades whatever the execution of pytest does
\* (try: orig_exec(module) finally: _upgrade_pytest_asyncio_stub(...))
ExecModuleOverride_Finally(st, args) ==
    IF Len(args) # Len(ExecModuleOverrideParams) THEN Raise(st, "TypeError")
    ELSE LET s1 == OrigExec(st, args[2])
             s2 == UpgradePytestAsyncioStub([Log(s1, "upgrade") EXCEPT !.exc = NoExc], s1.scpa)
         IN  IF Ok(s1) THEN s2 ELSE Raise(s2, s1.exc)

\* exec_module_override, called with the argument tuple args
ExecModuleOverride(st, args) ==
    IF Len(args) # Len(ExecModuleOverrideParams) THEN Raise(st, "TypeError")
    ELSE LET s1 == OrigExec(st, args[2])
         IN  IF Ok(s1) THEN UpgradePytestAsyncioStub(Log(s1, "upgrade"), s1.scpa) ELSE s1

\* _PytestImportHook.find_spec(fullname, path)
HookFindSpec(fullname) ==
    IF fullname # PYTEST THEN "none"
    ELSE IF env.pytest = "pathfinder" THEN "wrapped" ELSE "none"

\* the hook is consulted: it sees the resolution, and wraps the loader it finds
HookConsulted(st, fullname) ==
    IF st.meta = 0 THEN st
    ELSE [st EXCEPT !.hook.seen = @ + 1,
                    !.hook.wrapped = IF HookFindSpec(fullname) = "wrapped" THEN @ + 1 ELSE @]

ImportPytest(st) ==
    IF ~Ok(st) \/ Registered(st, PYTEST) THEN st
    ELSE LET s1 == HookConsulted(st, PYTEST) IN
         IF st.meta > 0 /\ HookFindSpec(PYTEST) = "wrapped"
         THEN \* the import system registers the module, then calls spec.loader.exec_module(module);
              \* a module whose execution raises is removed from sys.modules again
              LET s2 == ExecModuleOverride(Bind(s1, PYTEST, RealPytest), <<RealPytest>>)
              IN  IF Ok(s2) THEN s2 ELSE Unbind(s2, PYTEST)
         ELSE IF env.pytest = "absent" THEN ImportFails(s1, PYTEST)
         ELSE Bind(s1, PYTEST, RealPytest)

\* importlib.reload(pytest): the spec is looked up again and the module re-executed in place
ReloadPytestModule(st) ==
    LET s1 == HookConsulted(st, PYTEST) IN
    IF st.meta > 0 /\ HookFindSpec(PYTEST) = "wrapped"
    THEN ExecModuleOverride(s1, <<st.mods[PYTEST]>>)
    ELSE s1

\* ------------------------------------------------------------------ sitecustomize.py
\* lines 78-100: the pytest_asyncio placeholder
ScPlaceholder(st, g) ==
    LET s1 == IF ~env.paFile THEN [st EXCEPT !.scpa = Obj("sitecustomize:81", g)] ELSE st
        m == s1.scpa
    IN  IF m = Undefined THEN Raise(s1, "NameError")
        ELSE Bind(SetAttr(SetAttr(s1, m, "fixture", Val("_noop_fixture@sitecustomize:84")),
                          m, "asyncio", Val("True")),
                  PYTEST_ASYNCIO, m)

\* line 204: sys.meta_path.insert(0, _PytestImportHook())
ScArmHook(st) ==
    IF ~Ok(st) THEN st ELSE [st EXCEPT !.meta = @ + 1]

\* the installer without its early return for a registered module with a fixture
InstallPytestAsyncioStub_NoEarlyReturn(st, g) ==
    IF ~Ok(st) THEN st
    ELSE LET s1 == ImportPytest(st) IN
         IF s1.exc = "ModuleNotFoundError" THEN [s1 EXCEPT !.exc = NoExc]
         ELSE IF ~Ok(s1) THEN s1
         ELSE LET mod == Obj("sitecustomize:224", g)
                  s2 == SetAttr(s1, mod, "fixture", Val("_fixture@sitecustomize:228"))
                  s3 == SetAttr(s2, mod, "pytest_pyfunc_call",
                                Val("pytest_pyfunc_call@sitecustomize:268"))
              IN  Bind(MarkAsyncio(s3), PYTEST_ASYNCIO, mod)

\* _install_pytest_asyncio_stub()
InstallPytestAsyncioStub(st, g) ==
    IF ~Ok(st) THEN st
    ELSE IF Registered(st, PYTEST_ASYNCIO) /\ HasAttr(st, st.mods[PYTEST_ASYNCIO], "fixture")
    THEN st
    ELSE LET s1 == ImportPytest(st) IN
         IF s1.exc = "ModuleNotFoundError" THEN [s1 EXCEPT !.exc = NoExc]
         ELSE IF ~Ok(s1) THEN s1
         ELSE LET mod == Obj("sitecustomize:224", g)
                  s2 == SetAttr(s1, mod, "fixture", Val("_fixture@sitecustomize:228"))
                  s3 == SetAttr(s2, mod, "pytest_pyfunc_call",
                                Val("pytest_pyfunc_call@sitecustomize:268"))
              IN  Bind(MarkAsyncio(s3), PYTEST_ASYNCIO, mod)

\* the installer without its `if name in sys.modules: return` guard
InstallOne_NoGuard(st, by, n, mod, attr, val) ==
    IF ~Ok(st) THEN st
    ELSE LogRequest(st, Bind(SetAttr(Construct(st, n), mod, attr, val), n, mod), by, n)

\* a guarded installer of a one-module stub: `if name in sys.modules: return`, else
\* build the module, set its attribute and register it
InstallOne(st, by, n, mod, attr, val) ==
    IF ~Ok(st) THEN st
    ELSE IF Registered(st, n) THEN LogRequest(st, st, by, n)
    ELSE LogRequest(st, Bind(SetAttr(Construct(st, n), mod, attr, val), n, mod), by, n)

\* _install_pytest_check_stub()
InstallPytestCheckStub(st, g) ==
    InstallOne(st, "sitecustomize", <<"pytest_check">>, Obj("sitecustomize:331", g),
               "check", Val("_CheckProxy@sitecustomize:320"))

\* _install_asgi_lifespan_stub()
InstallAsgiLifespanStub(st, g) ==
    InstallOne(st, "sitecustomize", <<"asgi_lifespan">>, Obj("sitecustomize:358", g),
               "LifespanManager", Val("LifespanManager@sitecustomize:348"))

\* _install_websockets_stub()
InstallWebsocketsStub(st, g) ==
    IF ~Ok(st) THEN st
    ELSE IF Registered(st, WEBSOCKETS) THEN LogRequest(st, st, "sitecustomize", WEBSOCKETS)
    ELSE LET client == Obj("sitecustomize:392", g)
             sync == Obj("sitecustomize:395", g)
             ws == Obj("sitecustomize:398", g)
             s1 == SetAttr(Construct(st, WEBSOCKETS), client, "connect",
                           Val("_connect@sitecustomize:376"))
             s2 == SetAttr(s1, sync, "client", client)
             s3 == SetAttr(s2, ws, "sync", sync)
             s4 == Bind(Bind(Bind(s3, WEBSOCKETS, ws), <<"websockets", "sync">>, sync),
                        <<"websockets", "sync", "client">>, client)
         IN  LogRequest(st, s4, "sitecustomize", WEBSOCKETS)

\* importlib.import_module of a genuine module: registered under its name, and bound as
\* an attribute of its parent package, when it is loaded for the first time
ImportReal(st, n, o) ==
    IF Registered(st, n) THEN st
    ELSE LET s1 == Bind(st, n, o) IN
         IF IsDotted(n) THEN SetAttr(s1, s1.mods[Parent(n)], Leaf(n), o) ELSE s1

DOCLING == <<"docling">>
DOCLING_IMPL == <<"docling", "docling">>

\* _subpackages
Subpackages == <<"datamodel", "models", "backend", "chunking", "pipeline", "exceptions", "utils">>

\* the subpackages of docling.docling that exist on disk when docling.docling does
DoclingOnDisk == {"datamodel", "utils"}

\* importlib.import_module("docling.docling")
ImportDoclingImpl(st) ==
    ImportReal(ImportReal(st, DOCLING, Obj("real:docling", 0)),
               DOCLING_IMPL, Obj("real:docling.docling", 0))

\* the loop over _subpackages: alias docling.docling.<sub> as docling.<sub>
RECURSIVE ForwardSubs(_, _, _)
ForwardSubs(st, top_mod, i) ==
    IF i > Len(Subpackages) THEN st
    ELSE LET sub == Subpackages[i] IN
         IF sub \notin DoclingOnDisk THEN ForwardSubs(st, top_mod, i + 1)
         ELSE LET target == <<"docling", "docling", sub>>
                  s1 == ImportReal(st, target, Obj("real:docling.docling.sub", i))
                  m == s1.mods[target]
              IN  ForwardSubs(SetAttr(Bind(s1, <<"docling", sub>>, m), top_mod, sub, m),
                              top_mod, i + 1)

\* _install_docling_forwarders()
InstallDoclingForwarders(st, g) ==
    IF ~Ok(st) \/ ~env.docling THEN st
    ELSE LET s1 == ImportDoclingImpl(st)
             s2 == IF Registered(s1, DOCLING) THEN s1
                   ELSE Bind(s1, DOCLING, Obj("sitecustomize:434", g))
         IN  ForwardSubs(s2, s2.mods[DOCLING], 1)

\* the top level of sitecustomize.py
SitecustomizeTopLevel(st) ==
    LET s0 == [st EXCEPT !.runs["sitecustomize"] = @ + 1]
        g == s0.runs["sitecustomize"]
    IN  InstallDoclingForwarders(
          InstallWebsocketsStub(
            InstallAsgiLifespanStub(
              InstallPytestCheckStub(
                InstallPytestAsyncioStub(ScArmHook(ScPlaceholder(s0, g)), g), g), g), g), g)

\* ------------------------------------------------------------------ fastapi.py
\* setattr for several names at once; f maps attribute names to values
SetAttrs(st, o, f) ==
    [st EXCEPT !.attrs = {t \in @ : ~(t[1] = o /\ t[2] \in DOMAIN f)}
                         \cup {<<o, a, f[a]>> : a \in DOMAIN f}]

\* _install_submodule(name, obj_name, obj); mod is the module it creates
InstallSubmodule(st, name, mod, obj_name, obj) ==
    Bind(SetAttr(st, mod, obj_name, obj), name, mod)

FASTAPI_RESPONSES == <<"fastapi", "responses">>

\* the body of fastapi.py, executed as module `fastapi` (already in sys.modules)
ExecFastapiBody(st) ==
    LET s0 == [st EXCEPT !.runs["fastapi"] = @ + 1]
        g == s0.runs["fastapi"]
        fm == s0.mods[FASTAPI]
        docs_mod == Obj("fastapi.py:144", g)
        openapi_mod == Obj("fastapi.py:151", g)
        s1 == SetAttrs(s0, fm,
                 [a \in {"FastAPI", "HTTPException", "BackgroundTasks", "UploadFile", "Request",
                         "WebSocket", "WebSocketDisconnect", "Depends", "Query",
                         "CORSMiddleware", "RedirectResponse", "StaticFiles"}
                    |-> Val("shim@fastapi.py")])
        s2 == InstallSubmodule(s1, <<"fastapi", "middleware">>, Obj("fastapi.py:109", g),
                               "cors", Obj("fastapi.py:109:cors", g))
        s3 == InstallSubmodule(s2, <<"fastapi", "middleware", "cors">>, Obj("fastapi.py:110", g),
                               "CORSMiddleware", Val("CORSMiddleware@fastapi.py:104"))
        s4 == InstallSubmodule(s3, FASTAPI_RESPONSES, Obj("fastapi.py:122", g),
                               "RedirectResponse", Val("RedirectResponse@fastapi.py:116"))
        s5 == InstallSubmodule(s4, <<"fastapi", "staticfiles">>, Obj("fastapi.py:134", g),
                               "StaticFiles", Val("StaticFiles@fastapi.py:128"))
        s6 == SetAttrs(s5, docs_mod,
                 [a \in {"get_redoc_html", "get_swagger_ui_html",
                         "get_swagger_ui_oauth2_redirect_html"} |-> Val("_identity@fastapi.py:140")])
        s7 == Bind(SetAttr(s6, fm, "docs_mod", docs_mod), <<"fastapi", "openapi", "docs">>, docs_mod)
        s8 == SetAttr(SetAttr(s7, openapi_mod, "docs", docs_mod), fm, "openapi_mod", openapi_mod)
        s9 == Bind(s8, <<"fastapi", "openapi">>, openapi_mod)
    IN  \* _sys.modules.setdefault(__name__, _sys.modules[__name__])
        IF Registered(s9, FASTAPI) THEN s9 ELSE Raise(s9, "KeyError")

\* `import fastapi`
ImportFastapi(st) ==
    IF ~Ok(st) \/ Registered(st, FASTAPI) THEN st
    ELSE IF env.fastapi = "real"
    THEN LET s1 == ImportReal(st, FASTAPI, Obj("real:fastapi", 0))
             s2 == ImportReal(s1, FASTAPI_RESPONSES, Obj("real:fastapi.responses", 0))
         IN  SetAttr(s2, s2.mods[FASTAPI_RESPONSES], "FileResponse", Val("starlette.FileResponse"))
    ELSE IF env.fastapi = "shim"
    THEN ExecFastapiBody(Bind(st, FASTAPI, Obj("file:fastapi.py", 0)))
    ELSE ImportFails(st, FASTAPI)

\* `import fastapi.responses`: the submodule, then the top-level package the statement binds
ImportFastapiResponses(st) ==
    LET s1 == IF Registered(st, FASTAPI_RESPONSES) THEN st ELSE ImportFastapi(st)
        s2 == ImportFastapi(s1)
    IN  IF Ok(s2) /\ ~Registered(s2, FASTAPI_RESPONSES)
        THEN Raise(s2, "ModuleNotFoundError")
        ELSE s2

\* executing fastapi.py: its first import, or a re-execution of the loaded module
ExecFastapiPy(st) ==
    IF Registered(st, FASTAPI) THEN ExecFastapiBody(st) ELSE ImportFastapi(st)

\* ------------------------------------------------------------------ docling_core_stub.py
\* _register(path); mod is the module it creates
DcRegister(st, path, mod) == Bind(st, path, mod)

\* the body of docling_core_stub.py
ExecDoclingCoreStub(st) ==
    LET \* the import system registers the executing module under its own name
        sI == ImportReal(st, <<"docling_core_stub">>, Obj("file:docling_core_stub.py", 0))
        s0 == [sI EXCEPT !.runs["docling_core_stub"] = @ + 1]
        g == s0.runs["docling_core_stub"]
        pkg_root == Obj("docling_core_stub.py:64", g)
        pkg_utils == Obj("docling_core_stub.py:71", g)
        pkg_utils_file == Obj("docling_core_stub.py:90", g)
        pkg_utils_legacy == Obj("docling_core_stub.py:93", g)
        pkg_legacy_root == Obj("docling_core_stub.py:104", g)
        pkg_legacy_base == Obj("docling_core_stub.py:107", g)
        pkg_legacy_document == Obj("docling_core_stub.py:130", g)
        pkg_types == Obj("docling_core_stub.py:150", g)
        mod_doc == Obj("docling_core_stub.py:366", g)
        pkg_types_doc_page == Obj("docling_core_stub.py:439", g)
        mod_doc_document == Obj("docling_core_stub.py:454", g)
        mod_doc_labels == Obj("docling_core_stub.py:488", g)
        mod_io == Obj("docling_core_stub.py:498", g)
        T == <<"docling_core", "types">>
        s1 == DcRegister(DcRegister(s0, <<"docling_core">>, pkg_root),
                         <<"docling_core", "utils">>, pkg_utils)
        s2 == DcRegister(DcRegister(s1, <<"docling_core", "utils", "file">>, pkg_utils_file),
                         <<"docling_core", "utils", "legacy">>, pkg_utils_legacy)
        s3 == SetAttr(SetAttr(s2, pkg_utils, "file", pkg_utils_file),
                      pkg_utils, "legacy", pkg_utils_legacy)
        s4 == DcRegister(DcRegister(DcRegister(s3, T \o <<"legacy_doc">>, pkg_legacy_root),
                                    T \o <<"legacy_doc", "base">>, pkg_legacy_base),
                         T \o <<"legacy_doc", "document">>, pkg_legacy_document)
        s5 == SetAttr(SetAttr(s4, pkg_legacy_root, "base", pkg_legacy_base),
                      pkg_legacy_root, "document", pkg_legacy_document)
        s6 == DcRegister(DcRegister(s5, T, pkg_types), T \o <<"doc">>, mod_doc)
        s7 == SetAttr(DcRegister(s6, T \o <<"doc", "page">>, pkg_types_doc_page),
                      mod_doc, "page", pkg_types_doc_page)
        s8 == DcRegister(s7, T \o <<"doc", "document">>, mod_doc_document)
        \* line 479: the page module registered above is reused
        s9 == IF Registered(s8, T \o <<"doc", "page">>) THEN s8
              ELSE DcRegister(s8, T \o <<"doc", "page">>, Obj("docling_core_stub.py:482", g))
        s10 == SetAttr(DcRegister(s9, T \o <<"doc", "labels">>, mod_doc_labels),
                       pkg_types, "doc", mod_doc)
        s11 == SetAttr(DcRegister(s10, T \o <<"io">>, mod_io), pkg_types, "io", mod_io)
    IN  SetAttr(s11, pkg_root, "DocumentStream", Val("_Placeholder@docling_core_stub.py:35"))

\* ------------------------------------------------------------------ conftest.py
\* lines 64-147: `import pytest_asyncio`, and the stub built when that fails
CfPytestAsyncio(st, g) ==
    IF Registered(st, PYTEST_ASYNCIO) THEN st
    ELSE IF env.paImportable
    THEN LET pa == Obj("real:pytest_asyncio", 0)
         IN  Bind(SetAttr(st, pa, "fixture", Val("fixture@pytest_asyncio")), PYTEST_ASYNCIO, pa)
    ELSE LET s1 == ImportPytest([st EXCEPT !.failed = @ \cup {PYTEST_ASYNCIO}]) IN
         IF ~Ok(s1) THEN s1
         ELSE LET stub == Obj("conftest:69", g)
                  s2 == SetAttr(s1, stub, "fixture", Val("_fixture@conftest:73"))
                  s3 == SetAttr(s2, stub, "pytest_pyfunc_call",
                                Val("pytest_pyfunc_call@conftest:115"))
                  s4 == Bind(MarkAsyncio(s3), PYTEST_ASYNCIO, stub)
              IN  \* pytest.pluginmanager is read without a default
                  IF ~env.pmAvail THEN Raise(s4, "AttributeError")
                  ELSE MarkAsyncio(IF HasPlugin(s4, "pytest_asyncio") THEN s4
                                   ELSE Register(s4, stub, "pytest_asyncio"))

\* lines 199-212
CfPytestCheck(st, g) ==
    InstallOne(st, "conftest", <<"pytest_check">>, Obj("conftest:210", g),
               "check", Val("_CheckProxy@conftest:201"))

\* lines 216-235
CfAsgiLifespan(st, g) ==
    InstallOne(st, "conftest", <<"asgi_lifespan">>, Obj("conftest:232", g),
               "LifespanManager", Val("LifespanManager@conftest:218"))

\* lines 239-272: the modules are built under the guard, sys.modules.update runs after it
CfWebsockets(st, g) ==
    IF ~Ok(st) THEN st
    ELSE LET present == Registered(st, WEBSOCKETS)
             client == Obj("conftest:257", g)
             sync == Obj("conftest:260", g)
             ws == Obj("conftest:263", g)
             s1 == IF present THEN st
                   ELSE SetAttr(SetAttr(SetAttr(Construct(st, WEBSOCKETS), client, "connect",
                                                Val("_connect@conftest:241")),
                                        sync, "client", client),
                                ws, "sync", sync)
             \* _ws_mod, _ws_sync_mod and _ws_client_mod exist only if the guard was entered
             s2 == IF present THEN Raise(s1, "NameError")
                   ELSE Bind(Bind(Bind(s1, WEBSOCKETS, ws), <<"websockets", "sync">>, sync),
                             <<"websockets", "sync", "client">>, client)
         IN  LogRequest(st, s2, "conftest", WEBSOCKETS)

\* a finalisation block that registers without asking has_plugin first
CfFinalise_NoHasPlugin(st) ==
    LET s1 == ImportPytest(st) IN
    IF ~Ok(s1) THEN s1
    ELSE IF Registered(s1, PYTEST_ASYNCIO) /\ env.pmAvail
    THEN LET s2 == Register(s1, s1.mods[PYTEST_ASYNCIO], "pytest_asyncio")
         IN  IF Ok(s2) THEN MarkAsyncio(s2) ELSE s2
    ELSE s1

\* lines 333-350: register the stand-in found in sys.modules as a plugin
CfFinalise(st) ==
    LET s1 == ImportPytest(st) IN
    IF ~Ok(s1) THEN s1
    ELSE IF Registered(s1, PYTEST_ASYNCIO) /\ env.pmAvail /\ ~HasPlugin(s1, "pytest_asyncio")
    THEN MarkAsyncio(Register(s1, s1.mods[PYTEST_ASYNCIO], "pytest_asyncio"))
    ELSE s1

\* lines 354-361
CfScalarFastapi(st, g) ==
    InstallOne(st, "conftest", <<"scalar_fastapi">>, Obj("conftest:355", g),
               "get_scalar_api_reference", Val("get_scalar_api_reference@conftest:357"))

\* lines 365-378
CfFiletype(st, g) ==
    InstallOne(st, "conftest", <<"filetype">>, Obj("conftest:366", g),
               "guess", Val("guess@conftest:373"))

\* the forwarder with `sys.modules["docling"] = _impl_root` in place of setdefault
CfDoclingForward_Rebind(st) ==
    IF ~Ok(st) \/ ~env.docling THEN st
    ELSE LET s1 == ImportDoclingImpl(st)
             s2 == Bind(s1, DOCLING, s1.mods[DOCLING_IMPL])
         IN  ForwardSubs(s2, s2.mods[DOCLING], 1)

\* lines 388-412
CfDoclingForward(st) ==
    IF ~Ok(st) \/ ~env.docling THEN st
    ELSE LET s1 == ImportDoclingImpl(st)
             \* sys.modules.setdefault("docling", _impl_root)
             s2 == IF Registered(s1, DOCLING) THEN s1 ELSE Bind(s1, DOCLING, s1.mods[DOCLING_IMPL])
         IN  ForwardSubs(s2, s2.mods[DOCLING], 1)

IsFastapiName(n) == n[1] = "fastapi"

\* the registry entries fastapi and fastapi.*, as a set of <<name, object>>
FastapiEntries(m) == {<<n, m[n]>> : n \in {k \in DOMAIN m : IsFastapiName(k)}}

\* the attributes of the objects registered under fastapi and fastapi.*
FastapiAttrs(m, A) == {t \in A : \E n \in DOMAIN m : IsFastapiName(n) /\ m[n] = t[1]}

\* the response classes re-exported from starlette.responses
StarletteResponses ==
    {"FileResponse", "HTMLResponse", "JSONResponse", "PlainTextResponse", "RedirectResponse",
     "StreamingResponse"}

\* lines 435-475: `import fastapi`, and the minimal shim built when that fails
CfFastapi(st, g) ==
    IF ~Ok(st) THEN st
    ELSE LET s1 == ImportFastapi(st) IN
         IF Ok(s1)
         THEN [s1 EXCEPT !.fastapiMod = s1.mods[FASTAPI], !.fastapiImported = TRUE,
                         !.snapMods = FastapiEntries(s1.mods),
                         !.snapAttrs = FastapiAttrs(s1.mods, s1.attrs)]
         ELSE IF s1.exc # "ModuleNotFoundError" THEN s1
         ELSE LET fm == Obj("conftest:439", g)
                  resp == Obj("conftest:458", g)
                  s2 == [s1 EXCEPT !.exc = NoExc, !.fastapiMod = fm]
                  s3 == SetAttr(s2, fm, "HTTPException", Val("HTTPException@conftest:442"))
              IN  \* import starlette.responses
                  IF ~env.starlette THEN Raise(s3, "ModuleNotFoundError")
                  ELSE Bind(SetAttr(SetAttrs(s3, resp, [a \in StarletteResponses |->
                                                          Val("starlette.responses")]),
                                    fm, "responses", resp),
                            FASTAPI_RESPONSES, resp)

\* lines 484-492: add FileResponse to fastapi.responses when it lacks it
CfFileResponsePatch(st) ==
    IF ~Ok(st) THEN st
    ELSE LET s1 == ImportFastapiResponses(st) IN
         IF ~Ok(s1) THEN [s1 EXCEPT !.exc = IF @ = "ModuleNotFoundError" THEN NoExc ELSE @]
         ELSE LET top == s1.mods[FASTAPI]
                  r == IF HasAttr(s1, top, "responses")
                       THEN GetAttrIn(s1.attrs, top, "responses")
                       ELSE s1.mods[FASTAPI_RESPONSES]
              IN  IF HasAttr(s1, r, "FileResponse") \/ ~env.starlette THEN s1
                  ELSE SetAttr(s1, r, "FileResponse", Val("starlette.responses"))

\* lines 498-501: import fastapi.responses once more, any exception ignored
CfEnsureFastapiResponses(st) ==
    IF ~Ok(st) THEN st
    ELSE [ImportFastapiResponses(st) EXCEPT !.exc = NoExc]

\* lines 513-557
CfPypdfium2(st, g) ==
    IF ~Ok(st) THEN st
    ELSE IF Registered(st, <<"pypdfium2">>) THEN LogRequest(st, st, "conftest", <<"pypdfium2">>)
    ELSE LET _pp_mod == Obj("conftest:514", g)
             _pp_raw == Obj("conftest:540", g)
             _pp_helpers == Obj("conftest:548", g)
             _pp_helpers_misc == Obj("conftest:549", g)
             s1 == SetAttrs(Construct(st, <<"pypdfium2">>), _pp_mod,
                      [a \in {"PdfDocument", "PdfPage", "PdfTextPage"} |-> Val("_Dummy@conftest:519")])
             s2 == SetAttr(s1, _pp_mod, "PdfiumError", Val("PdfiumError@conftest:516"))
             s3 == Bind(s2, <<"pypdfium2", "raw">>, _pp_raw)
             s4 == SetAttr(s3, _pp_helpers_misc, "PdfiumError", Val("PdfiumError@conftest:516"))
             s5 == Bind(Bind(s4, <<"pypdfium2", "_helpers">>, _pp_helpers),
                        <<"pypdfium2", "_helpers", "misc">>, _pp_helpers_misc)
         IN  LogRequest(st, Bind(s5, <<"pypdfium2">>, _pp_mod), "conftest", <<"pypdfium2">>)

\* lines 601-814: the FastAPI stand-in and the submodules hung on _fastapi_mod
CfAugmentFastapi(st, g) ==
    \* the body of class FastAPI imports starlette.applications
    IF ~env.starlette THEN Raise(st, "ModuleNotFoundError")
    ELSE LET fm == st.fastapiMod
             middleware == Obj("conftest:772", g)
             cors == Obj("conftest:773", g)
             openapi == Obj("conftest:778", g)
             docs == Obj("conftest:779", g)
             responses == Obj("conftest:793", g)
             staticfiles == Obj("conftest:805", g)
             s1 == SetAttrs(st, fm,
                      [a \in {"FastAPI", "BackgroundTasks", "UploadFile", "Request", "Depends",
                              "Query", "Form", "File", "HTTPException", "WebSocket",
                              "WebSocketDisconnect"} |-> Val("stub@conftest")])
             s2 == SetAttr(SetAttr(SetAttr(s1, fm, "middleware", middleware),
                                   middleware, "cors", cors),
                           cors, "CORSMiddleware", Val("object"))
             s3 == Bind(Bind(s2, <<"fastapi", "middleware">>, middleware),
                        <<"fastapi", "middleware", "cors">>, cors)
             s4 == SetAttr(SetAttr(s3, fm, "openapi", openapi), openapi, "docs", docs)
             s5 == SetAttrs(s4, docs,
                      [a \in {"__all__", "get_redoc_html", "get_swagger_ui_html",
                              "get_swagger_ui_oauth2_redirect_html"} |-> Val("_identity@conftest:602")])
             s6 == Bind(Bind(s5, <<"fastapi", "openapi">>, openapi),
                        <<"fastapi", "openapi", "docs">>, docs)
             s7 == SetAttr(SetAttr(s6, fm, "responses", responses),
                           responses, "RedirectResponse", Val("_RedirectResponse@conftest:794"))
             s8 == Bind(s7, FASTAPI_RESPONSES, responses)
             s9 == SetAttr(SetAttr(s8, fm, "staticfiles", staticfiles),
                           staticfiles, "StaticFiles", Val("_StaticFiles@conftest:806"))
             s10 == Bind(s9, <<"fastapi", "staticfiles">>, staticfiles)
         IN  Bind(s10, FASTAPI, fm)

\* lines 563-814: the docling_parse stub; the fastapi augmentation sits under the same guard
CfDoclingParse(st, g) ==
    IF ~Ok(st) THEN st
    ELSE IF Registered(st, <<"docling_parse">>)
    THEN LogRequest(st, st, "conftest", <<"docling_parse">>)
    ELSE LET _dp_root == Obj("conftest:564", g)
             _dp_pparsers == Obj("conftest:565", g)
             _dp_parser_mod == Obj("conftest:581", g)
             s1 == SetAttrs(Construct(st, <<"docling_parse">>), _dp_pparsers,
                      [a \in {"pdf_parser_v1", "pdf_parser_v2"} |-> Val("_PDFParserDummy@conftest:567")])
             s2 == SetAttr(s1, _dp_root, "pdf_parsers", _dp_pparsers)
             s3 == SetAttrs(s2, _dp_parser_mod,
                      [a \in {"DoclingPdfParser", "PdfDocument"} |-> Val("_DummyParser@conftest:583")])
             s4 == SetAttr(s3, _dp_root, "pdf_parser", _dp_parser_mod)
             s5 == Bind(Bind(Bind(s4, <<"docling_parse", "pdf_parser">>, _dp_parser_mod),
                             <<"docling_parse">>, _dp_root),
                        <<"docling_parse", "pdf_parsers">>, _dp_pparsers)
         IN  LogRequest(st, CfAugmentFastapi(s5, g), "conftest", <<"docling_parse">>)

\* the top level of conftest.py
ConftestTopLevel(st) ==
    LET s0 == [st EXCEPT !.runs["conftest"] = @ + 1]
        g == s0.runs["conftest"]
        a == CfWebsockets(CfAsgiLifespan(CfPytestCheck(CfPytestAsyncio(s0, g), g), g), g)
        \* line 281: import pytest
        b == CfFiletype(CfScalarFastapi(CfFinalise(ImportPytest(a)), g), g)
        c == CfEnsureFastapiResponses(CfFileResponsePatch(CfFastapi(CfDoclingForward(b), g)))
    IN  CfDoclingParse(CfPypdfium2(c, g), g)

\* ------------------------------------------------------------------ the collection hook
\* a path is the sequence of its pieces; `needle in path_str` is a contiguous match
IsInfix(needle, path) ==
    \E i \in 0..(Len(path) - Len(needle)) : SubSeq(path, i + 1, i + Len(needle)) = needle

E2ENeedles ==
    { <<"src/", "docling-serve/", "tests/", "test_1-">>,
      <<"src/", "docling-serve/", "tests/", "test_2-">> }

\* a hook that deselects the end-to-end items instead of marking them
PytestCollectionModifyitems_Deselect(st, its) ==
    LET keep == {i \in DOMAIN its : ~\E nd \in E2ENeedles : IsInfix(nd, its[i].path)}
    IN  [st EXCEPT !.runs["modifyitems"] = @ + 1,
                   !.items = IF 1 \in keep THEN SubSeq(its, 1, 1) ELSE <<>>]

\* pytest_collection_modifyitems(config, items)
PytestCollectionModifyitems(st, its) ==
    LET s0 == [st EXCEPT !.runs["modifyitems"] = @ + 1]
        g == s0.runs["modifyitems"]
        marked == [i \in DOMAIN its |->
                     IF \E nd \in E2ENeedles : IsInfix(nd, its[i].path)
                     THEN [its[i] EXCEPT !.markers = @ \cup {"skip"}]
                     ELSE its[i]]
        s1 == [s0 EXCEPT !.items = marked]
    IN  IF Registered(s1, <<"rtree">>) THEN LogRequest(s1, s1, "modifyitems", <<"rtree">>)
        ELSE LET _rtree_mod == Obj("conftest:307", g)
                 _rtree_index_mod == Obj("conftest:308", g)
                 s2 == SetAttr(Construct(s1, <<"rtree">>), _rtree_index_mod, "Index",
                               Val("_DummyIndex@conftest:310"))
             IN  LogRequest(s1, Bind(Bind(s2, <<"rtree">>, _rtree_mod),
                                     <<"rtree", "index">>, _rtree_index_mod),
                            "modifyitems", <<"rtree">>)

\* ------------------------------------------------------------------ the state machine
\* the item lists the collection hands to the hook
ItemLists ==
    { << [path |-> <<"src/", "docling-serve/", "tests/", "test_1-", "api.py">>, markers |-> {}],
         [path |-> <<"src/", "docling/", "tests/", "test_1-", "api.py">>, markers |-> {}] >>,
      << [path |-> <<"/repo/", "src/", "docling-serve/", "tests/", "test_2-", "ui.py">>,
          markers |-> {"slow"}],
         [path |-> <<"src/", "docling-serve/", "tests/", "test_3-", "ui.py">>, markers |-> {}] >> }

Builtins == (<<"sys">> :> Obj("builtin:sys", 0))

\* no test item is being run
NoInputs == [decorator |-> "none", style |-> "none", fixture |-> [kind |-> "none", steps |-> <<>>],
             test |-> [kind |-> "none", steps |-> <<>>], argnames |-> {}, hookimpl |-> "none",
             others |-> <<>>]
NoObj == [type |-> "none", impl |-> "none", func |-> [kind |-> "none", steps |-> <<>>],
          site |-> "none", f_args |-> <<>>]
NoResults == [setup |-> <<"none", "none">>, call |-> <<"none", "none">>,
              teardown |-> <<"none", "none">>]
BridgeIdle ==
    /\ phase = "idle"
    /\ inputs = NoInputs
    /\ bound = NoObj
    /\ loops = <<>>
    /\ trace = <<>>
    /\ agen = [steps |-> <<>>, pos |-> 0, done |-> TRUE]
    /\ calls = <<>>
    /\ funcargs = {}
    /\ results = NoResults

Init ==
    /\ env \in {e \in Envs : EnvOK(e)}
    /\ sys_modules = IF env.preloaded THEN (env.realDep :> Obj("real:dep", 0)) @@ Builtins
                     ELSE Builtins
    /\ attrs = {}
    /\ meta_path = 0
    /\ sc_pa_mod = Undefined
    /\ plugins = {}
    /\ items = <<>>
    /\ built = [n \in GuardedNames |-> 0]
    /\ requests = {}
    /\ hook = [seen |-> 0, wrapped |-> 0, upgrades |-> 0, log |-> <<>>]
    /\ import_failed = {}
    /\ last = [op |-> "init", exc |-> NoExc, viaHook |-> FALSE, fastapiImported |-> FALSE,
               snapMods |-> {}, snapAttrs |-> {}]
    /\ runs = [s \in Scripts |-> 0]
    /\ loaded = {}
    /\ steps = 0
    /\ BridgeIdle

\* the step `op` ran and left the working record r
Commit(op, r) ==
    /\ sys_modules' = r.mods
    /\ attrs' = r.attrs
    /\ meta_path' = r.meta
    /\ sc_pa_mod' = r.scpa
    /\ plugins' = r.plugins
    /\ items' = r.items
    /\ built' = r.built
    /\ requests' = r.reqs
    /\ hook' = r.hook
    /\ import_failed' = r.failed
    /\ runs' = r.runs
    /\ last' = [op |-> op, exc |-> r.exc, viaHook |-> r.hook.wrapped > hook.wrapped,
                fastapiImported |-> r.fastapiImported,
                snapMods |-> r.snapMods, snapAttrs |-> r.snapAttrs]
    /\ loaded' = IF Ok(r) THEN loaded \cup {op} ELSE loaded
    /\ steps' = steps + 1
    /\ UNCHANGED env
    /\ UNCHANGED bvars

\* the interpreter imports sitecustomize
Sitecustomize ==
    /\ steps < MaxSteps
    /\ Commit("sitecustomize", SitecustomizeTopLevel(St))

\* conftest.py is executed
Conftest ==
    /\ steps < MaxSteps
    /\ Commit("conftest", ConftestTopLevel(St))

\* the runner calls the collection hook of a loaded conftest
CollectionModifyitems ==
    /\ steps < MaxSteps
    /\ "conftest" \in loaded
    /\ \E its \in ItemLists : Commit("modifyitems", PytestCollectionModifyitems(St, its))

\* fastapi.py is executed (first import, or re-execution)
Fastapi ==
    /\ steps < MaxSteps
    /\ env.fastapi = "shim"
    /\ Commit("fastapi", ExecFastapiPy(St))

\* docling_core_stub.py is executed
DoclingCoreStub ==
    /\ steps < MaxSteps
    /\ Commit("docling_core_stub", ExecDoclingCoreStub(St))

\* some code runs `import pytest` while pytest is not loaded
ImportPytestStep ==
    /\ steps < MaxSteps
    /\ ~Registered(St, PYTEST)
    /\ Commit("import_pytest", ImportPytest(St))

\* some code reloads the loaded pytest
ReloadPytestStep ==
    /\ steps < MaxSteps
    /\ Registered(St, PYTEST)
    /\ Commit("reload_pytest", ReloadPytestModule(St))

Next ==
    \/ Sitecustomize
    \/ Conftest
    \/ CollectionModifyitems
    \/ Fastapi
    \/ DoclingCoreStub
    \/ ImportPytestStep
    \/ ReloadPytestStep

Spec == Init /\ [][Next]_vars

\* ------------------------------------------------------------------ the async bridge
\* A function is [kind, steps]: kind is what inspect reports ("coroutine" for
\* `async def`, "asyncgen" for `async def` with yield, "function" otherwise); steps
\* is what running it does: one <<"return", v>> or <<"raise", e>> for a coroutine or
\* a plain function, a sequence of <<"yield", v>> / <<"raise", e>> for an async
\* generator, which terminates when the sequence is used up.
Ret(v) == <<"return", v>>
Exc(e) == <<"raise", e>>
Yld(v) == <<"yield", v>>
StopAsyncIteration == Exc("StopAsyncIteration")
StopIteration == Exc("StopIteration")
Fn(kind, body) == [kind |-> kind, steps |-> body]

\* inspect.iscoroutinefunction / inspect.isasyncgenfunction
IsCoroutineFunction(f) == f.kind = "coroutine"
IsAsyncGenFunction(f) == f.kind = "asyncgen"

\* the bridge's working record: the event loops created so far (each with the
\* bridged call that created it), the trace of loop events, the async generator
\* of the fixture under test, and the outcome of the last evaluation
NoAgen == [steps |-> <<>>, pos |-> 0, done |-> TRUE]
NoRes == <<"none", "none">>

\* agen = func(*args, **kwargs): a fresh async generator object
NewAgen(f) == [steps |-> f.steps, pos |-> 1, done |-> FALSE]

\* awaiting agen.__anext__(): <<outcome, generator afterwards>>
Anext(g) ==
    IF g.done \/ g.pos > Len(g.steps) THEN <<StopAsyncIteration, [g EXCEPT !.done = TRUE]>>
    ELSE IF g.steps[g.pos][1] = "yield"
    THEN <<Ret(g.steps[g.pos][2]), [g EXCEPT !.pos = @ + 1]>>
    ELSE <<g.steps[g.pos], [g EXCEPT !.done = TRUE]>>

\* a driver that keeps one event loop and runs every awaitable on it
\* (loop.run_until_complete on a shared loop)
AsyncioRun_SharedLoop(b, call, outcome) ==
    IF b.loops = <<>>
    THEN [b EXCEPT !.loops = <<call>>,
                   !.trace = @ \o << [ev |-> "create", loop |-> 1, call |-> call],
                                     [ev |-> "run", loop |-> 1, call |-> call] >>,
                   !.res = outcome]
    ELSE [b EXCEPT !.trace = Append(@, [ev |-> "run", loop |-> 1, call |-> call]),
                   !.res = outcome]

\* a driver that closes its loop only when the awaitable ends normally
AsyncioRun_NoCloseOnError(b, call, outcome) ==
    LET l == Len(b.loops) + 1
        opened == << [ev |-> "create", loop |-> l, call |-> call],
                     [ev |-> "run", loop |-> l, call |-> call] >>
    IN  [b EXCEPT !.loops = Append(@, call),
                  !.trace = IF outcome[1] = "raise" THEN @ \o opened
                            ELSE @ \o opened \o <<[ev |-> "close", loop |-> l, call |-> call]>>,
                  !.res = outcome]

\* a driver that hands the outcome back before closing its loop, and closes the
\* loop of the previous call only once the next loop exists
AsyncioRun_LazyClose(b, call, outcome) ==
    LET l == Len(b.loops) + 1
        prev == IF l = 1 THEN <<>>
                ELSE <<[ev |-> "close", loop |-> l - 1, call |-> b.loops[l - 1]]>>
    IN  [b EXCEPT !.loops = Append(@, call),
                  !.trace = @ \o <<[ev |-> "create", loop |-> l, call |-> call]>> \o prev
                              \o <<[ev |-> "run", loop |-> l, call |-> call]>>,
                  !.res = outcome]

\* asyncio.run(awaitable), for bridged call `call`, the awaitable ending in `outcome`:
\* a new event loop is created, runs the awaitable and is closed, then the outcome
\* (value or exception) is handed to the caller
AsyncioRun(b, call, outcome) ==
    LET l == Len(b.loops) + 1
    IN  [b EXCEPT !.loops = Append(@, call),
                  !.trace = @ \o << [ev |-> "create", loop |-> l, call |-> call],
                                    [ev |-> "run", loop |-> l, call |-> call],
                                    [ev |-> "close", loop |-> l, call |-> call] >>,
                  !.res = outcome]

\* the caller of a bridged call observes its outcome
Observe(b, call, outcome) ==
    [b EXCEPT !.trace = Append(@, [ev |-> outcome[1], loop |-> 0, call |-> call]),
              !.res = outcome]

\* a wrapper that runs the coroutine and drops what it returns
SyncWrapper_NoReturn(b, call, func) ==
    LET b1 == AsyncioRun(b, call, func.steps[1])
    IN  Observe(b1, call, IF b1.res[1] = "raise" THEN b1.res ELSE Ret("None"))

\* _sync_wrapper(*args, **kwargs): return asyncio.run(func(*args, **kwargs))
SyncWrapper(b, call, func) ==
    LET b1 == AsyncioRun(b, call, func.steps[1])
    IN  Observe(b1, call, b1.res)

\* a `finally` part without the `except StopAsyncIteration: pass`
SyncGenFinally_NoAbsorb(b, call, pending) ==
    LET a == Anext(b.agen)
        b1 == AsyncioRun([b EXCEPT !.agen = a[2]], call, a[1])
    IN  IF b1.res[1] = "raise" THEN b1 ELSE [b1 EXCEPT !.res = pending]

\* a wrapper that resumes the generator in an `else` part: not when an exception
\* is on its way out
SyncGenFinally_OnlyOnSuccess(b, call, pending) ==
    IF pending # StopIteration THEN [b EXCEPT !.res = pending]
    ELSE LET a == Anext(b.agen)
             b1 == AsyncioRun([b EXCEPT !.agen = a[2]], call, a[1])
         IN  IF b1.res = StopAsyncIteration THEN [b1 EXCEPT !.res = pending]
             ELSE IF b1.res[1] = "raise" THEN b1
             ELSE [b1 EXCEPT !.res = pending]

\* the `finally` part of _sync_gen_wrapper: resume the generator once more and absorb
\* its StopAsyncIteration; then the pending outcome (an exception on its way out, or
\* the normal end of the wrapper, StopIteration) takes effect
SyncGenFinally(b, call, pending) ==
    LET a == Anext(b.agen)
        b1 == AsyncioRun([b EXCEPT !.agen = a[2]], call, a[1])
    IN  IF b1.res = StopAsyncIteration THEN [b1 EXCEPT !.res = pending]
        ELSE IF b1.res[1] = "raise" THEN b1
        ELSE [b1 EXCEPT !.res = pending]

\* first next() on _sync_gen_wrapper(...): agen = func(...); value = asyncio.run(
\* agen.__anext__()); yield value.  An exception there goes through `finally`.
SyncGenSetup(b, func) ==
    LET g == NewAgen(func)
        a == Anext(g)
        b1 == AsyncioRun([b EXCEPT !.agen = a[2]], "setup", a[1])
    IN  IF b1.res[1] = "return" THEN Observe(b1, "setup", b1.res)
        ELSE LET b2 == SyncGenFinally(b1, "setup", b1.res)
             IN  Observe(b2, "setup", b2.res)

\* a teardown that insists on termination, as contextlib does ("generator didn't stop")
SyncGenTeardown_Strict(b) ==
    LET b1 == SyncGenFinally(b, "teardown", StopIteration)
    IN  IF b1.res = StopIteration /\ ~b1.agen.done
        THEN Observe(b1, "teardown", Exc("RuntimeError"))
        ELSE Observe(b1, "teardown", b1.res)

\* second next() on the suspended wrapper: execution resumes after `yield value`
\* and runs `finally`; the wrapper then ends
SyncGenTeardown(b) ==
    LET b1 == SyncGenFinally(b, "teardown", StopIteration)
    IN  Observe(b1, "teardown", b1.res)

\* ---- the fixture decorators
\* What a name of the test module is bound to: a function marked as a fixture by
\* pytest.fixture (type "fixture"), or an unmarked callable (type "function").
\* impl says which code runs when it is called, func is the user's function it
\* closes over, site the decorator that made it, f_args the captured arguments.
NoFn == Fn("none", <<>>)
NOOP_FIXTURE == Val("_noop_fixture@sitecustomize:84")
UP_FIXTURE == Val("fixture@sitecustomize:110")
SC_FIXTURE == Val("_fixture@sitecustomize:228")
CF_FIXTURE == Val("_fixture@conftest:73")
FixtureVariants == {NOOP_FIXTURE, UP_FIXTURE, SC_FIXTURE, CF_FIXTURE}

Callable(impl, func, site, f_args) ==
    [type |-> "function", impl |-> impl, func |-> func, site |-> site, f_args |-> f_args]

\* pytest.fixture(*args)(fn): with no positional argument the marker decorates fn;
\* with a function as first argument pytest.fixture marks that function itself,
\* and calling the marked function raises ("Fixture called directly")
PytestFixture(args, impl, func, site) ==
    IF args = <<>>
    THEN [type |-> "fixture", impl |-> impl, func |-> func, site |-> site, f_args |-> <<>>]
    ELSE [type |-> "error", impl |-> "Fixture called directly", func |-> func, site |-> site,
          f_args |-> args]

\* the body shared by _create_fixture and the two `decorator` closures: pick the
\* wrapper by the kind of func and hand it to pytest.fixture(*args)
WrapAndMark(func, args, site) ==
    IF IsCoroutineFunction(func) THEN PytestFixture(args, "_sync_wrapper", func, site)
    ELSE IF IsAsyncGenFunction(func) THEN PytestFixture(args, "_sync_gen_wrapper", func, site)
    ELSE PytestFixture(args, "func", func, site)

\* sitecustomize._noop_fixture(*args): returns `decorator`, which returns func as it is
NoopFixture(f_args) == Callable("decorator", NoFn, NOOP_FIXTURE, f_args)
NoopDecorator(func) == Callable("func", func, NOOP_FIXTURE, <<>>)

\* _upgrade_pytest_asyncio_stub.fixture(*f_args): a callable first argument is the
\* function being decorated (bare use), otherwise `decorator` is returned
CreateFixture(func, remaining_args) == WrapAndMark(func, remaining_args, UP_FIXTURE)
UpFixture(f_args) ==
    IF f_args # <<>> /\ f_args[1].kind # "none"
    THEN CreateFixture(f_args[1], Tail(f_args))
    ELSE Callable("decorator", NoFn, UP_FIXTURE, f_args)

\* _install_pytest_asyncio_stub._fixture(*fixture_args): returns `decorator` in every case
ScFixture(fixture_args) == Callable("decorator", NoFn, SC_FIXTURE, fixture_args)

\* conftest's _fixture(*f_args): returns `decorator` in every case
CfFixture(f_args) == Callable("decorator", NoFn, CF_FIXTURE, f_args)

\* pytest_asyncio.fixture(*f_args) for the decorator object d
CallFixture(d, f_args) ==
    CASE d = NOOP_FIXTURE -> NoopFixture(f_args)
      [] d = UP_FIXTURE -> UpFixture(f_args)
      [] d = SC_FIXTURE -> ScFixture(f_args)
      [] OTHER -> CfFixture(f_args)

\* closure(func) for a `decorator` closure returned by one of the above
CallDecorator(closure, func) ==
    CASE closure.site = NOOP_FIXTURE -> NoopDecorator(func)
      [] closure.site = UP_FIXTURE -> CreateFixture(func, closure.f_args)
      [] OTHER -> WrapAndMark(func, closure.f_args, closure.site)

\* the test module's definition of `dummy`:
\*   "bare":    @pytest_asyncio.fixture      dummy = fixture(func)
\*   "factory": @pytest_asyncio.fixture()    dummy = fixture()(func)
Decorated(d, style, func) ==
    IF style = "bare" THEN CallFixture(d, <<func>>)
    ELSE CallDecorator(CallFixture(d, <<>>), func)

\* ---- the call interceptor
\* the bridge's working record over the current state
B == [loops |-> loops, trace |-> trace, agen |-> agen, calls |-> calls, res |-> NoRes]

\* the target is invoked by `by` with keyword arguments kwargs
Invoke(b, by, kwargs) == [b EXCEPT !.calls = Append(@, [by |-> by, kwargs |-> kwargs])]

\* a hook that passes every resolved fixture value: test_obj(**pyfuncitem.funcargs)
Kwargs_AllFuncargs(item) == item.funcargs

\* {name: pyfuncitem.funcargs[name] for name in pyfuncitem._fixtureinfo.argnames}
Kwargs(item) == {kv \in item.funcargs : kv[1] \in item.argnames}

\* a hook that drives its target whatever its kind and reports it handled
PyfuncCallBody_AnyTarget(b, item) ==
    LET b1 == AsyncioRun(Invoke(b, "hook", Kwargs(item)), "call", item.obj.steps[1])
    IN  IF b1.res[1] = "raise" THEN Observe(b1, "call", b1.res)
        ELSE Observe(b1, "call", Ret("True"))

\* a hook that reports handled even when the coroutine raised
PyfuncCallBody_Swallow(b, item) ==
    IF IsCoroutineFunction(item.obj)
    THEN LET b1 == AsyncioRun(Invoke(b, "hook", Kwargs(item)), "call", item.obj.steps[1])
         IN  Observe(b1, "call", Ret("True"))
    ELSE [b EXCEPT !.res = Ret("None")]

\* the body of pytest_pyfunc_call(pyfuncitem), the same text at all four sites
PyfuncCallBody(b, item) ==
    IF IsCoroutineFunction(item.obj)
    THEN LET b1 == AsyncioRun(Invoke(b, "hook", Kwargs(item)), "call", item.obj.steps[1])
         IN  IF b1.res[1] = "raise" THEN Observe(b1, "call", b1.res)
             ELSE Observe(b1, "call", Ret("True"))
    ELSE [b EXCEPT !.res = Ret("None")]

\* conftest.pytest_pyfunc_call, the hook of conftest's stub, the hook installed by the
\* upgrade and the hook of sitecustomize's stub
PytestPyfuncCall(b, item) == PyfuncCallBody(b, item)
CfStubPytestPyfuncCall(b, item) == PyfuncCallBody(b, item)
UpPytestPyfuncCall(b, item) == PyfuncCallBody(b, item)
ScStubPytestPyfuncCall(b, item) == PyfuncCallBody(b, item)

HookImpls ==
    {"pytest_pyfunc_call@conftest:159", "pytest_pyfunc_call@conftest:115",
     "pytest_pyfunc_call@sitecustomize:153", "pytest_pyfunc_call@sitecustomize:268"}

CallHook(h, b, item) ==
    CASE h = "pytest_pyfunc_call@conftest:159" -> PytestPyfuncCall(b, item)
      [] h = "pytest_pyfunc_call@conftest:115" -> CfStubPytestPyfuncCall(b, item)
      [] h = "pytest_pyfunc_call@sitecustomize:153" -> UpPytestPyfuncCall(b, item)
      [] OTHER -> ScStubPytestPyfuncCall(b, item)

\* the implementations that can be active besides the first one called: none, the
\* hook of conftest.py, or the hook of the stub conftest registered as a plugin
OtherImpls ==
    {<<>>, <<"pytest_pyfunc_call@conftest:159">>, <<"pytest_pyfunc_call@conftest:115">>}

\* a runner that calls every active implementation, whatever the earlier ones answer
RECURSIVE CallChain_All(_, _, _)
CallChain_All(hs, b, item) ==
    IF hs = <<>> THEN b
    ELSE LET r == CallHook(Head(hs), b, item)
         IN  IF Tail(hs) = <<>> \/ r.res[1] = "raise" THEN r
             ELSE CallChain_All(Tail(hs), r, item)

\* the runner calls the active implementations in turn and stops at the first that
\* answers something else than None (or raises)
RECURSIVE CallChain(_, _, _)
CallChain(hs, b, item) ==
    IF hs = <<>> THEN [b EXCEPT !.res = Ret("None")]
    ELSE LET r == CallHook(Head(hs), b, item)
         IN  IF r.res = Ret("None") THEN CallChain(Tail(hs), r, item) ELSE r

\* a hook answered None: the runner calls the target itself
RunnerDefault(b, item) ==
    LET b1 == Invoke(b, "runner", Kwargs(item))
    IN  Observe(b1, "call", item.obj.steps[1])

\* ---- one test item run by the runner
Values == {"v1", "v2"}
ZeroDivisionError == "ZeroDivisionError"

\* fixture functions: coroutines, async generators and a plain function
FixtureFuncs ==
    {Fn("coroutine", <<Ret(v)>>) : v \in Values}
    \cup {Fn("coroutine", <<Exc(ZeroDivisionError)>>)}
    \cup {Fn("asyncgen", <<Yld(v)>>) : v \in Values}
    \cup {Fn("asyncgen", <<Exc(ZeroDivisionError)>>),
          Fn("asyncgen", <<Yld("v1"), Exc(ZeroDivisionError)>>),
          Fn("asyncgen", <<Yld("v1"), Yld("v2")>>)}
    \cup {Fn("function", <<Ret("v1")>>)}

\* test functions: `async def` or `def`, passing or raising
TestFuncs ==
    {Fn(k, <<r>>) : k \in {"coroutine", "function"}, r \in {Ret("None"), Exc(ZeroDivisionError)}}

\* the environment of the item run: pytest resolved by a finder after the hook
BridgeEnvs ==
    {e \in Envs : /\ EnvOK(e) /\ ~e.paFile /\ ~e.paImportable /\ e.pytest = "other"
                  /\ e.fastapi = "absent" /\ ~e.starlette /\ e.realDep = <<"none">>
                  /\ ~e.docling}

\* the interpreter state before any script has run
Fresh ==
    [ mods |-> Builtins, attrs |-> {}, meta |-> 0, scpa |-> Undefined, plugins |-> {},
      items |-> <<>>, built |-> [n \in GuardedNames |-> 0], reqs |-> {},
      hook |-> [seen |-> 0, wrapped |-> 0, upgrades |-> 0, log |-> <<>>], failed |-> {},
      runs |-> [sc \in Scripts |-> 0], exc |-> NoExc, fastapiMod |-> Undefined,
      fastapiImported |-> FALSE, snapMods |-> {}, snapAttrs |-> {} ]

\* sitecustomize has run and pytest has been imported; a test module is about to
\* be collected.  Its fixture decorator is the attribute of the registered
\* pytest_asyncio ("registered"), or one of the stub decorators taken as a function.
BridgeInit ==
    /\ env \in BridgeEnvs
    /\ LET r == ImportPytest(SitecustomizeTopLevel(Fresh))
       IN  /\ sys_modules = r.mods
           /\ attrs = r.attrs
           /\ meta_path = r.meta
           /\ sc_pa_mod = r.scpa
           /\ plugins = r.plugins
           /\ items = r.items
           /\ built = r.built
           /\ requests = r.reqs
           /\ hook = r.hook
           /\ import_failed = r.failed
           /\ runs = r.runs
           /\ last = [op |-> "import_pytest", exc |-> r.exc, viaHook |-> FALSE,
                      fastapiImported |-> FALSE, snapMods |-> {}, snapAttrs |-> {}]
           /\ loaded = {"sitecustomize", "import_pytest"}
           /\ steps = 2
    /\ phase = "define"
    /\ inputs \in [decorator : {"registered", SC_FIXTURE, CF_FIXTURE},
                   style : {"bare", "factory"},
                   fixture : FixtureFuncs,
                   test : TestFuncs,
                   argnames : {{}, {"dummy"}},
                   hookimpl : HookImpls,
                   others : OtherImpls]
    /\ \A i \in 1..Len(inputs.others) : inputs.others[i] # inputs.hookimpl
    /\ bound = NoObj
    /\ loops = <<>>
    /\ trace = <<>>
    /\ agen = NoAgen
    /\ calls = <<>>
    /\ funcargs = {}
    /\ results = NoResults

\* the bridge's working record r becomes the state
BridgeCommit(r) ==
    /\ loops' = r.loops
    /\ trace' = r.trace
    /\ agen' = r.agen
    /\ calls' = r.calls

\* _upgrade_pytest_asyncio_stub(_pytest_asyncio_mod) is called before the test
\* module is collected
UpgradeCall ==
    /\ phase = "define"
    /\ hook.upgrades = 0
    /\ hook.log = <<>>
    /\ Commit("upgrade", UpgradePytestAsyncioStub(St, sc_pa_mod))

\* a loader calls exec_module_override with the two arguments its signature
\* names, for a pytest whose body runs to its end or raises
ExecModuleCall ==
    /\ phase = "define"
    /\ hook.upgrades = 0
    /\ hook.log = <<>>
    /\ \E module \in {RealPytest, BrokenPytest} :
           Commit("exec_module", ExecModuleOverride(St, <<Val("loader"), module>>))

\* the decorator the test module finds as pytest_asyncio.fixture
TheDecorator ==
    IF inputs.decorator = "registered"
    THEN GetAttrIn(attrs, sys_modules[PYTEST_ASYNCIO], "fixture")
    ELSE inputs.decorator

\* the test module's body runs: `dummy` is defined with the decorator applied
Define ==
    /\ phase = "define"
    /\ bound' = Decorated(TheDecorator, inputs.style, inputs.fixture)
    /\ phase' = "setup"
    /\ UNCHANGED <<env, sys_modules, attrs, meta_path, sc_pa_mod, plugins, items, built,
                   requests, hook, import_failed, last, runs, loaded, steps>>
    /\ UNCHANGED <<inputs, loops, trace, agen, calls, funcargs, results>>

\* calling the fixture function that `dummy` is bound to
CallFixtureFunction(b, fx) ==
    CASE fx.impl = "_sync_wrapper" -> SyncWrapper(b, "setup", fx.func)
      [] fx.impl = "_sync_gen_wrapper" -> SyncGenSetup(b, fx.func)
      [] OTHER -> Observe(b, "setup", fx.func.steps[1])

\* the runner resolves the fixture `dummy` of the item
FixtureSetup ==
    /\ phase = "setup"
    /\ LET r == IF bound.type = "fixture" THEN CallFixtureFunction(B, bound)
                ELSE [B EXCEPT !.res = Exc("fixture 'dummy' not found")]
       IN  /\ BridgeCommit(r)
           /\ results' = [results EXCEPT !.setup = r.res]
           /\ funcargs' = IF r.res[1] = "return" THEN {<<"dummy", r.res[2]>>} ELSE {}
           /\ phase' = IF r.res[1] = "return" THEN "call" ELSE "done"
    /\ UNCHANGED <<env, sys_modules, attrs, meta_path, sc_pa_mod, plugins, items, built,
                   requests, hook, import_failed, last, runs, loaded, steps>>
    /\ UNCHANGED <<inputs, bound>>

\* the item the runner hands to pytest_pyfunc_call
Item == [obj |-> inputs.test, argnames |-> inputs.argnames, funcargs |-> funcargs]

\* the runner calls the active pytest_pyfunc_call implementations; when all answer
\* None it runs the target itself
PyfuncCall ==
    /\ phase = "call"
    /\ LET h == CallChain(<<inputs.hookimpl>> \o inputs.others, B, Item)
           r == IF h.res = Ret("None") THEN RunnerDefault(h, Item) ELSE h
       IN  /\ BridgeCommit(r)
           /\ results' = [results EXCEPT !.call = h.res]
    /\ phase' = IF bound.impl = "_sync_gen_wrapper" THEN "teardown" ELSE "done"
    /\ UNCHANGED <<env, sys_modules, attrs, meta_path, sc_pa_mod, plugins, items, built,
                   requests, hook, import_failed, last, runs, loaded, steps>>
    /\ UNCHANGED <<inputs, bound, funcargs>>

\* the runner finalises the generator fixture: next() on the suspended wrapper
FixtureTeardown ==
    /\ phase = "teardown"
    /\ LET r == SyncGenTeardown(B)
       IN  /\ BridgeCommit(r)
           /\ results' = [results EXCEPT !.teardown = r.res]
    /\ phase' = "done"
    /\ UNCHANGED <<env, sys_modules, attrs, meta_path, sc_pa_mod, plugins, items, built,
                   requests, hook, import_failed, last, runs, loaded, steps>>
    /\ UNCHANGED <<inputs, bound, funcargs>>

BridgeNext ==
    \/ UpgradeCall
    \/ ExecModuleCall
    \/ Define
    \/ FixtureSetup
    \/ PyfuncCall
    \/ FixtureTeardown

BridgeSpec == BridgeInit /\ [][BridgeNext]_vars

\* ------------------------------------------------------------------ properties
\* the proper prefixes of a dotted name
Ancestors(n) == {SubSeq(n, 1, k) : k \in 1..(Len(n) - 1)}

\* the names some bootstrap script installs a stub for, and those whose genuine
\* package this environment can import
StubbedNames == GuardedNames \cup {PYTEST_ASYNCIO, FASTAPI}
Importable(n) ==
    \/ n = env.realDep
    \/ n = PYTEST_ASYNCIO /\ env.paImportable
    \/ n = FASTAPI /\ env.fastapi # "absent"

\* C1: for each guarded name, a step taken while the name is registered leaves
\* its registry entry bound to the same object, and no sequence of installation
\* requests constructs the name's stub more than once
C1_GuardedInstallIdempotent ==
    [][\A n \in GuardedNames :
          /\ n \in DOMAIN sys_modules =>
                 n \in DOMAIN sys_modules' /\ sys_modules'[n] = sys_modules[n]
          /\ built'[n] <= 1]_vars

\* C1 witness: a guarded name whose stub was built by one request was requested
\* again while registered, and is still bound to the one stub that was built
C1_Witness ==
    \E r1, r2 \in requests :
        /\ r1.name = r2.name /\ r1.name \in GuardedNames
        /\ ~r1.present /\ r2.present
        /\ built[r1.name] = 1
        /\ r1.name \in DOMAIN sys_modules /\ IsSynthetic(sys_modules[r1.name])

\* C2: an installation request for a name that is already registered raises no
\* error and changes no registry entry
C2_PresentIsSilentNoOp ==
    \A r \in requests : r.present => (r.exc = NoExc /\ ~r.changed)

\* C3: no step removes a registry key or rebinds it to another object
C3_KeysNeverRebound ==
    [][\A n \in DOMAIN sys_modules :
          n \in DOMAIN sys_modules' /\ sys_modules'[n] = sys_modules[n]]_vars

\* C4: after a script has run to its end, for every registered synthetic dotted
\* name p.c whose parent p is registered, the module at p has an attribute c and
\* that attribute is the object registered at p.c
C4_ParentChildConsistent ==
    (last.op # "init" /\ last.exc = NoExc) =>
        \A n \in DOMAIN sys_modules :
            (IsDotted(n) /\ IsSynthetic(sys_modules[n]) /\ Parent(n) \in DOMAIN sys_modules) =>
                /\ HasAttrIn(attrs, sys_modules[Parent(n)], Leaf(n))
                /\ GetAttrIn(attrs, sys_modules[Parent(n)], Leaf(n)) = sys_modules[n]

\* C5: after a bootstrap script has run to its end, every ancestor of every
\* registered synthetic dotted name is registered too
C5_AncestorsRegistered ==
    (last.op \in {"sitecustomize", "conftest", "fastapi", "docling_core_stub"}
        /\ last.exc = NoExc) =>
        \A n \in DOMAIN sys_modules :
            (IsDotted(n) /\ IsSynthetic(sys_modules[n])) => Ancestors(n) \subseteq DOMAIN sys_modules

\* C6: a stubbed name is bound to a synthetic module only after its genuine
\* import was attempted and failed, and a stubbed name whose genuine package is
\* importable is bound to the genuine module
C6_RealPreferred ==
    \A n \in StubbedNames \cap DOMAIN sys_modules :
        /\ IsSynthetic(sys_modules[n]) => n \in import_failed
        /\ Importable(n) => ~IsSynthetic(sys_modules[n])

\* C7: when conftest's `import fastapi` succeeded, conftest leaves every fastapi
\* and fastapi.* registry entry and every attribute of those modules as the
\* import left them, except the FileResponse attribute of fastapi.responses
C7_ImportedFastapiUntouched ==
    (last.op = "conftest" /\ last.fastapiImported) =>
        /\ FastapiEntries(sys_modules) = last.snapMods
        /\ {t \in FastapiAttrs(sys_modules, attrs) : t[2] # "FileResponse"}
               = {t \in last.snapAttrs : t[2] # "FileResponse"}

\* C8: once the import hook has wrapped the loader of a pytest resolution, the
\* upgrade function has been invoked exactly once, however many resolutions of
\* pytest followed
C8_UpgradeExactlyOnce ==
    hook.wrapped >= 1 => hook.upgrades = 1

C11_UpgradeWithoutPluginManager ==
    (last.op = "upgrade" /\ ~env.pmAvail) =>
        /\ last.exc = NoExc
        /\ <<sc_pa_mod, "fixture", UP_FIXTURE>> \in attrs
        /\ <<sc_pa_mod, "pytest_pyfunc_call", Val("pytest_pyfunc_call@sitecustomize:153")>>
               \in attrs
        /\ \A p \in plugins : p[1] # "pytest_asyncio"

\* C11 witness: the upgrade function has run where no plugin manager exists, on
\* the placeholder that is registered as pytest_asyncio
C11_Witness ==
    /\ last.op = "upgrade" /\ ~env.pmAvail
    /\ hook.upgrades = 1
    /\ sys_modules[PYTEST_ASYNCIO] = sc_pa_mod
    /\ <<sc_pa_mod, "fixture", UP_FIXTURE>> \in attrs

\* C12: a coroutine fixture function wrapped by the conftest decorator, by the
\* upgraded decorator or by the decorator of sitecustomize's stub: the wrapper
\* closes over the user's function, returns v when the coroutine returns v and
\* raises E when the coroutine raises E
C12_CoroutineFixtureResult ==
    (phase \in {"call", "teardown", "done"} /\ bound.type = "fixture"
        /\ bound.impl = "_sync_wrapper") =>
        /\ bound.site \in {CF_FIXTURE, UP_FIXTURE, SC_FIXTURE}
        /\ bound.func = inputs.fixture
        /\ results.setup = inputs.fixture.steps[1]

\* C12 witness: a coroutine fixture wrapped by the upgraded decorator was set up
\* and its coroutine raised
C12_Witness ==
    /\ phase = "done" /\ bound.type = "fixture" /\ bound.impl = "_sync_wrapper"
    /\ bound.site = UP_FIXTURE
    /\ inputs.fixture = Fn("coroutine", <<Exc(ZeroDivisionError)>>)
    /\ results.setup = Exc(ZeroDivisionError)

\* the number of events e of bridged call c in the trace tr
RECURSIVE CountEvents(_, _, _)
CountEvents(tr, e, c) ==
    IF tr = <<>> THEN 0
    ELSE (IF Head(tr).ev = e /\ Head(tr).call = c THEN 1 ELSE 0) + CountEvents(Tail(tr), e, c)

\* C13: an async-generator fixture that yields v and then terminates: the
\* generator wrapper hands v to the runner exactly once, and the teardown step
\* resumes the generator, finds it terminated and ends the wrapper normally
\* (StopIteration, the end of a generator), with no second value and no exception
C13_GeneratorFixtureShape ==
    \A v \in Values :
        (phase = "done" /\ bound.type = "fixture" /\ bound.impl = "_sync_gen_wrapper"
            /\ inputs.fixture = Fn("asyncgen", <<Yld(v)>>)) =>
            /\ results.setup = Ret(v)
            /\ CountEvents(trace, "return", "setup") = 1
            /\ CountEvents(trace, "return", "teardown") = 0
            /\ results.teardown = StopIteration
            /\ agen.done /\ agen.pos = 2
            /\ CountEvents(trace, "run", "teardown") = 1

\* C13 witness: such a fixture has been set up with value v2 and torn down
C13_Witness ==
    /\ phase = "done" /\ bound.impl = "_sync_gen_wrapper"
    /\ inputs.fixture = Fn("asyncgen", <<Yld("v2")>>)
    /\ results.setup = Ret("v2") /\ results.teardown = StopIteration
    /\ results.call # NoRes

\* the stages of the item run that have drawn on the bridge so far
BridgedStages ==
    (IF results.setup # NoRes /\ bound.impl \in {"_sync_wrapper", "_sync_gen_wrapper"}
     THEN {"setup"} ELSE {})
    \cup (IF results.call # NoRes /\ IsCoroutineFunction(inputs.test) THEN {"call"} ELSE {})
    \cup (IF results.teardown # NoRes THEN {"teardown"} ELSE {})

\* C14: every bridged call (coroutine fixture, generator setup step, generator
\* teardown step, coroutine test) has an event loop of its own: each run of an
\* awaitable is on a loop created by the same call, no loop runs more than one
\* awaitable, and no loop is used by two calls
C14_LoopPerBridgedCall ==
    /\ \A c \in BridgedStages : \E l \in 1..Len(loops) : loops[l] = c
    /\ \A i \in 1..Len(trace) :
           trace[i].ev = "run" =>
               /\ trace[i].loop \in 1..Len(loops)
               /\ loops[trace[i].loop] = trace[i].call
               /\ \A j \in 1..Len(trace) :
                      (trace[j].ev = "run" /\ trace[j].loop = trace[i].loop) => j = i

\* C14 witness: the generator fixture's setup, the coroutine test and the
\* teardown have run, on three loops
C14_Witness ==
    /\ phase = "done"
    /\ BridgedStages = {"setup", "call", "teardown"}
    /\ loops = <<"setup", "call", "teardown">>

\* C15: every loop is created, runs and is closed, in that order and once each;
\* when an exception reaches a caller every loop created before is already
\* closed; and an exception raised by the driven coroutine or generator step is
\* the outcome its caller observes (only the generator's StopAsyncIteration is
\* absorbed)
C15_LoopLifecycleAndPropagation ==
    /\ \A l \in 1..Len(loops) :
           /\ \E i \in 1..(Len(trace) - 2) :
                  /\ trace[i] = [ev |-> "create", loop |-> l, call |-> loops[l]]
                  /\ trace[i + 1] = [ev |-> "run", loop |-> l, call |-> loops[l]]
                  /\ trace[i + 2] = [ev |-> "close", loop |-> l, call |-> loops[l]]
           /\ Cardinality({i \in 1..Len(trace) : trace[i].loop = l}) = 3
    /\ \A i \in 1..Len(trace) :
           trace[i].ev = "raise" =>
               \A j \in 1..(i - 1) :
                   trace[j].ev = "create" =>
                       \E k \in (j + 1)..(i - 1) :
                           trace[k].ev = "close" /\ trace[k].loop = trace[j].loop
    /\ ("setup" \in BridgedStages /\ inputs.fixture.steps[1][1] = "raise")
           => results.setup = inputs.fixture.steps[1]
    /\ ("call" \in BridgedStages /\ inputs.test.steps[1][1] = "raise")
           => results.call = inputs.test.steps[1]
    /\ ("teardown" \in BridgedStages /\ Len(inputs.fixture.steps) >= 2
            /\ inputs.fixture.steps[2][1] = "raise")
           => results.teardown = inputs.fixture.steps[2]

\* C15 witness: a generator fixture raised when resumed at teardown, after a
\* coroutine test that raised; both exceptions were observed, all loops closed
C15_Witness ==
    /\ phase = "done"
    /\ inputs.fixture = Fn("asyncgen", <<Yld("v1"), Exc(ZeroDivisionError)>>)
    /\ inputs.test = Fn("coroutine", <<Exc(ZeroDivisionError)>>)
    /\ results.call = Exc(ZeroDivisionError)
    /\ results.teardown = Exc(ZeroDivisionError)
    /\ Len(loops) = 3

\* the call stage of the item has taken place
CallDone == results.call # NoRes

\* C16: for a coroutine test, each of the four pytest_pyfunc_call
\* implementations invokes the target once, with the resolved values of exactly
\* the names in argnames, on a loop of its own, and answers True when the
\* coroutine completes, so that the runner does not invoke the target itself
C16_CoroutineTestHandled ==
    (CallDone /\ IsCoroutineFunction(inputs.test)) =>
        /\ Len(calls) = 1 /\ calls[1].by = "hook"
        /\ {kv[1] : kv \in calls[1].kwargs} = inputs.argnames
        /\ calls[1].kwargs \subseteq funcargs
        /\ CountEvents(trace, "run", "call") = 1
        /\ inputs.test.steps[1][1] = "return" => results.call = Ret("True")

\* C16 witness: the hook installed by the upgrade handled a passing coroutine
\* test that names no fixture while a fixture value was resolved for the item
C16_Witness ==
    /\ CallDone /\ inputs.test = Fn("coroutine", <<Ret("None")>>)
    /\ inputs.hookimpl = "pytest_pyfunc_call@sitecustomize:153"
    /\ inputs.argnames = {} /\ funcargs # {}
    /\ results.call = Ret("True") /\ Len(calls) = 1

\* C17: for a test that is not a coroutine function the hook answers None, does
\* not invoke the target and creates no loop; the runner's own invocation of
\* the target is the only one, and its outcome is the target's
C17_SyncTestNotHandled ==
    (CallDone /\ ~IsCoroutineFunction(inputs.test)) =>
        /\ results.call = Ret("None")
        /\ \A i \in 1..Len(calls) : calls[i].by # "hook"
        /\ \A l \in 1..Len(loops) : loops[l] # "call"
        /\ CountEvents(trace, "run", "call") = 0
        /\ calls = <<[by |-> "runner", kwargs |-> {kv \in funcargs : kv[1] \in inputs.argnames}]>>
        /\ CountEvents(trace, inputs.test.steps[1][1], "call") = 1
        /\ CountEvents(trace, "return", "call") + CountEvents(trace, "raise", "call") = 1

\* C17 witness: conftest's hook was offered a plain test function that raises,
\* with a coroutine fixture set up before
C17_Witness ==
    /\ CallDone /\ inputs.test = Fn("function", <<Exc(ZeroDivisionError)>>)
    /\ inputs.hookimpl = "pytest_pyfunc_call@conftest:159"
    /\ results.call = Ret("None")
    /\ loops = <<"setup">>
    /\ Len(calls) = 1

\* C18: when a coroutine test raises E while the hook drives it, the hook raises
\* E and does not answer True
C18_CoroutineTestFailureSurfaces ==
    (CallDone /\ IsCoroutineFunction(inputs.test) /\ inputs.test.steps[1][1] = "raise") =>
        /\ results.call = inputs.test.steps[1]
        /\ results.call # Ret("True")
        /\ \E i \in 1..Len(trace) : trace[i] = [ev |-> "raise", loop |-> 0, call |-> "call"]

\* C18 witness: a coroutine test raising ZeroDivisionError was driven by the hook
\* of conftest's stub
C18_Witness ==
    /\ CallDone /\ inputs.test = Fn("coroutine", <<Exc(ZeroDivisionError)>>)
    /\ inputs.hookimpl = "pytest_pyfunc_call@conftest:115"
    /\ results.call = Exc(ZeroDivisionError)
    /\ Len(calls) = 1 /\ calls[1].by = "hook"

\* the decorators that can be bound as pytest_asyncio.fixture when a test module
\* is collected: the attribute of the registered placeholder (upgraded or not)
\* and the decorator of conftest's stub
CollectionTimeDecorators == {"registered", CF_FIXTURE}

\* C19: `@pytest_asyncio.fixture` used bare on an async generator function that
\* yields v, with any decorator that can be bound at collection time: `dummy` is
\* a fixture, and a coroutine test that names it is invoked with dummy = v
C19_BareDecoratorDeliversValue ==
    \A v \in Values :
        (phase = "done" /\ inputs.decorator \in CollectionTimeDecorators
            /\ inputs.style = "bare"
            /\ inputs.fixture = Fn("asyncgen", <<Yld(v)>>)
            /\ IsCoroutineFunction(inputs.test) /\ "dummy" \in inputs.argnames) =>
            /\ bound.type = "fixture"
            /\ Len(calls) = 1 /\ <<"dummy", v>> \in calls[1].kwargs

\* C20: when pytest_asyncio.py exists next to sitecustomize.py, a run of
\* sitecustomize ends without error, binds no synthetic module under
\* "pytest_asyncio", and has carried out the remaining installations (the import
\* hook, pytest_check, asgi_lifespan, websockets)
C20_LocalImplSkipsStub ==
    (last.op = "sitecustomize" /\ env.paFile) =>
        /\ last.exc = NoExc
        /\ PYTEST_ASYNCIO \in DOMAIN sys_modules => ~IsSynthetic(sys_modules[PYTEST_ASYNCIO])
        /\ meta_path >= 1
        /\ {<<"pytest_check">>, <<"asgi_lifespan">>, WEBSOCKETS} \subseteq DOMAIN sys_modules

\* the registry entries docling and docling.*, as a set of <<name, object>>
DoclingEntries(m) == {<<n, m[n]>> : n \in {k \in DOMAIN m : k[1] = "docling"}}

\* the attributes named after the subpackages on the object o
SubpackageAttrs(A, o) ==
    {t \in A : t[1] = o /\ \E i \in 1..Len(Subpackages) : t[2] = Subpackages[i]}

\* a bootstrap script has run its forwarder block to the end
ForwardersRan == env.docling /\ loaded \cap {"sitecustomize", "conftest"} # {}

OpenLoops(k) ==
    {trace[i].loop : i \in {j \in 1..k : trace[j].ev = "create"}}
        \ {trace[i].loop : i \in {j \in 1..k : trace[j].ev = "close"}}

\* C22: bridged work is not interleaved with the runner or with other bridged
\* work: at most one event loop is open at any point, an awaitable runs while
\* its own loop is the only open one, no loop is open when a bridged call hands
\* its outcome to the runner, and none is open between hook and fixture calls
C22_NoInterleaving ==
    /\ \A k \in 1..Len(trace) :
           /\ Cardinality(OpenLoops(k)) <= 1
           /\ trace[k].ev = "run" => OpenLoops(k) = {trace[k].loop}
           /\ trace[k].loop = 0 => OpenLoops(k) = {}
    /\ OpenLoops(Len(trace)) = {}

\* C22 witness: the runner is between the call of a coroutine test and the
\* teardown of a generator fixture; two loops were opened and closed in turn
C22_Witness ==
    /\ phase \notin {"idle", "define", "done"}
    /\ loops = <<"setup", "call">>
    /\ results.teardown = NoRes
    /\ Len(trace) = 8

\* o is a module object: a genuine module, or one made by types.ModuleType (these
\* carry the number of the script run that made them; plain values carry 0)
IsModuleObject(o) == o[2] >= 1 \/ o[1] \in RealSites

\* the registered synthetic module at n has its module-valued attributes
\* registered under n.<attribute>, bound to the attribute's object
SubmodulesRegistered(n) ==
    \A t \in attrs :
        (t[1] = sys_modules[n] /\ IsModuleObject(t[3])) =>
            /\ n \o <<t[2]>> \in DOMAIN sys_modules
            /\ sys_modules[n \o <<t[2]>>] = t[3]

\* C23: after a script has run to its end, every module object that is an
\* attribute of a registered synthetic module is registered under its own
\* fully-qualified name, bound to that same object
C23_AttachedSubmodulesRegistered ==
    (last.op # "init" /\ last.exc = NoExc) =>
        \A n \in DOMAIN sys_modules : IsSynthetic(sys_modules[n]) => SubmodulesRegistered(n)

\* C23 outside fastapi.py: the same for every synthetic module not made by line 109
C23_ExceptFastapiPy ==
    (last.op # "init" /\ last.exc = NoExc) =>
        \A n \in DOMAIN sys_modules :
            (IsSynthetic(sys_modules[n]) /\ sys_modules[n][1] # "fastapi.py:109")
                => SubmodulesRegistered(n)

\* C24: the override invokes the upgrade only after the body of pytest has run
\* to its end: every upgrade in its log directly follows a completed execution,
\* and an execution that raised is followed by nothing, the placeholder being
\* left as it was and the exception handed to the importer
C24_UpgradeAfterExec ==
    /\ \A i \in 1..Len(hook.log) :
           /\ hook.log[i] = "upgrade" => (i > 1 /\ hook.log[i - 1] = "body_ok")
           /\ hook.log[i] = "body_raised" => i = Len(hook.log)
    /\ (hook.log # <<>> /\ hook.log[Len(hook.log)] = "body_raised") =>
           /\ hook.upgrades = 0
           /\ GetAttrIn(attrs, sc_pa_mod, "fixture") = NOOP_FIXTURE
           /\ last.op = "exec_module" => last.exc = "ImportError"

\* C24 witness: the override ran pytest's body, then upgraded the placeholder
C24_Witness ==
    /\ hook.log = <<"body_ok", "upgrade">>
    /\ hook.upgrades = 1
    /\ GetAttrIn(attrs, sc_pa_mod, "fixture") = UP_FIXTURE

\* the path contains one of the two end-to-end prefixes
IsE2EPath(path) ==
    \/ IsInfix(<<"src/", "docling-serve/", "tests/", "test_1-">>, path)
    \/ IsInfix(<<"src/", "docling-serve/", "tests/", "test_2-">>, path)

PytestAsyncioPlugins == {p \in plugins : p[1] = "pytest_asyncio"}

\* C26: whichever of the registration sites have run, and in whatever order, the
\* name "pytest_asyncio" is registered with the plugin manager at most once and
\* no site has tried to register it a second time; and when conftest has run to
\* its end with a stand-in in the registry and a plugin manager available, the
\* stand-in is registered as the plugin
C26_RegisteredAtMostOnce ==
    /\ Cardinality(PytestAsyncioPlugins) <= 1
    /\ last.exc # "ValueError"
    /\ (last.op = "conftest" /\ last.exc = NoExc /\ env.pmAvail
            /\ PYTEST_ASYNCIO \in DOMAIN sys_modules
            /\ IsSynthetic(sys_modules[PYTEST_ASYNCIO])) =>
           PytestAsyncioPlugins = {<<"pytest_asyncio", sys_modules[PYTEST_ASYNCIO]>>}

\* C26 witness: conftest built its stub, registered it in the fallback branch,
\* passed the finalisation block and ran to its end
C26_Witness ==
    /\ last.op = "conftest" /\ last.exc = NoExc /\ env.pmAvail
    /\ PYTEST_ASYNCIO \in DOMAIN sys_modules
    /\ sys_modules[PYTEST_ASYNCIO][1] = "conftest:69"
    /\ plugins = {<<"pytest_asyncio", sys_modules[PYTEST_ASYNCIO]>>}

\* C27: with two pytest_pyfunc_call implementations active for an item whose
\* target is a coroutine function, the target is invoked exactly once, by the
\* first implementation, on one event loop, and the runner gets one outcome
C27_CoroutineBodyOnce ==
    (CallDone /\ IsCoroutineFunction(inputs.test) /\ inputs.others # <<>>) =>
        /\ Len(calls) = 1
        /\ calls[1].by = "hook"
        /\ CountEvents(trace, "run", "call") = 1
        /\ CountEvents(trace, "return", "call") + CountEvents(trace, "raise", "call") = 1

\* C27 witness: conftest's hook ran a passing coroutine test while the hook of
\* the registered stub was active behind it
C27_Witness ==
    /\ phase = "done"
    /\ inputs.hookimpl = "pytest_pyfunc_call@conftest:159"
    /\ inputs.others = <<"pytest_pyfunc_call@conftest:115">>
    /\ inputs.test = Fn("coroutine", <<Ret("None")>>)
    /\ results.call = Ret("True")
    /\ Len(calls) = 1

\* the fixture under test is an async generator run through _sync_gen_wrapper
GenFixtureSetUp ==
    /\ bound.type = "fixture" /\ bound.impl = "_sync_gen_wrapper"
    /\ results.setup # NoRes

\* C28: for an async-generator fixture, one invocation of the wrapper resumes
\* the generator for teardown exactly once, on the generator that setup
\* advanced and not before setup has handed over its value; when setup raised E
\* the resume still takes place, within the setup call, and the caller gets E
C28_TeardownOnceSameGenerator ==
    GenFixtureSetUp =>
        /\ agen.steps = inputs.fixture.steps
        /\ (results.setup[1] = "return" /\ phase \in {"call", "teardown"}) =>
               /\ CountEvents(trace, "run", "setup") = 1
               /\ CountEvents(trace, "run", "teardown") = 0
               /\ agen.pos = 2 /\ ~agen.done
        /\ (results.setup[1] = "return" /\ phase = "done") =>
               /\ CountEvents(trace, "run", "setup") = 1
               /\ CountEvents(trace, "run", "teardown") = 1
               /\ \E i, j \in 1..Len(trace) :
                      /\ i < j
                      /\ trace[i].ev = "return" /\ trace[i].call = "setup"
                      /\ trace[j].ev = "run" /\ trace[j].call = "teardown"
               /\ IF Len(agen.steps) >= 2 /\ agen.steps[2][1] = "yield"
                  THEN agen.pos = 3 /\ ~agen.done
                  ELSE agen.pos = 2 /\ agen.done
        /\ results.setup[1] = "raise" =>
               /\ results.setup = inputs.fixture.steps[1]
               /\ results.setup # StopAsyncIteration
               /\ CountEvents(trace, "run", "setup") = 2
               /\ CountEvents(trace, "run", "teardown") = 0
               /\ agen.done

\* C28 witness: the setup step of a generator fixture raised ZeroDivisionError;
\* the generator was resumed once more and the runner saw ZeroDivisionError
C28_Witness ==
    /\ GenFixtureSetUp
    /\ inputs.fixture = Fn("asyncgen", <<Exc(ZeroDivisionError)>>)
    /\ results.setup = Exc(ZeroDivisionError)
    /\ loops = <<"setup", "setup">>

\* C29: an async-generator fixture that yields a second value when resumed at
\* teardown: the runner sees the wrapper end normally (StopIteration, no error),
\* the second value reaches nobody, the fixture value stays the first one, and
\* the generator is left suspended after its second yield
C29_SecondYieldIgnored ==
    \A v, w \in Values :
        (phase = "done" /\ bound.type = "fixture" /\ bound.impl = "_sync_gen_wrapper"
            /\ inputs.fixture = Fn("asyncgen", <<Yld(v), Yld(w)>>)) =>
            /\ results.teardown = StopIteration
            /\ CountEvents(trace, "return", "teardown") = 0
            /\ CountEvents(trace, "run", "teardown") = 1
            /\ funcargs = {<<"dummy", v>>}
            /\ agen.pos = 3 /\ ~agen.done

\* C29 witness: the fixture yielding v1 then v2 has been set up and torn down
C29_Witness ==
    /\ phase = "done" /\ bound.impl = "_sync_gen_wrapper"
    /\ inputs.fixture = Fn("asyncgen", <<Yld("v1"), Yld("v2")>>)
    /\ results.setup = Ret("v1")
    /\ results.teardown = StopIteration
    /\ ~agen.done

\* C30: after sitecustomize has registered its placeholder, the name
\* "pytest_asyncio" stays bound to that placeholder (_install_pytest_asyncio_stub
\* builds and binds nothing), so that an upgrade that has run has put its
\* decorator and its hook on the very object the registry holds
C30_UpgradeMutatesRegisteredObject ==
    "sitecustomize" \in loaded =>
        /\ PYTEST_ASYNCIO \in DOMAIN sys_modules
        /\ sc_pa_mod[1] = "sitecustomize:81"
        /\ sys_modules[PYTEST_ASYNCIO] = sc_pa_mod
        /\ \A t \in attrs : t[1][1] # "sitecustomize:224"
        /\ (hook.upgrades >= 1 /\ last.exc = NoExc) =>
               /\ GetAttrIn(attrs, sys_modules[PYTEST_ASYNCIO], "fixture") = UP_FIXTURE
               /\ GetAttrIn(attrs, sys_modules[PYTEST_ASYNCIO], "pytest_pyfunc_call")
                      = Val("pytest_pyfunc_call@sitecustomize:153")
               /\ \A p \in plugins : p[1] = "pytest_asyncio" => p[2] = sys_modules[PYTEST_ASYNCIO]

\* C30 witness: the override ran the upgrade on the placeholder that the
\* registry holds, and the placeholder was registered as the plugin
C30_Witness ==
    /\ "sitecustomize" \in loaded
    /\ last.op = "exec_module" /\ last.exc = NoExc
    /\ hook.upgrades = 1
    /\ plugins = {<<"pytest_asyncio", sys_modules[PYTEST_ASYNCIO]>>}
    /\ HasAttrIn(attrs, sys_modules[PYTEST_ASYNCIO], "pytest_pyfunc_call")

=============================================================================
